---- MODULE Spec2Model ----
(***************************************************************************)
(* url-health-sentinel: the monitoring loop (sentinel/app.py) and the      *)
(* dashboard request handlers (dashboard/app.py) over the shared Redis     *)
(* store.  Every Redis command is one atomic step; the code between two    *)
(* commands belongs to the step of the command that precedes it.           *)
(***************************************************************************)
EXTENDS Integers, FiniteSets, Sequences, TLC

VARIABLES
    stations,     \* Redis set 'stations'
    urls,         \* Redis sets 'urls:<station>' (an absent key is the empty set)
    status,       \* Redis scalars 'status:<url>' (Absent when the key does not exist)
    backend,      \* what a Redis command does now: "up", "down", "timeout"
    faults,       \* number of backend changes so far
    limits,       \* the bounds of this run: sweeps, faults, requests, dashboard threads,
                  \* and the outcomes a probe can have
    pc,           \* the sentinel's position
    caller,       \* who called connect_redis: "main" (line 154) or "check_urls" (line 138)
    attempt,      \* connect_redis: loop variable of 'for attempt in range(max_retries)'
    check_count,  \* check_urls: check_count
    iterStations, \* check_urls: stations of 'for station in stations' not yet visited
    all_urls,     \* check_urls: all_urls
    todo,         \* check_urls: members of all_urls the for loop has not yet visited
    url,          \* check_urls: url of the current iteration
    outcome,      \* what requests.get did in the last check_url call
    statusLocal,  \* check_urls: status (the value check_url returned)
    e,            \* check_urls: the exception the except clause of line 126 has caught
    probes,       \* number of check_url calls per URL in the current sweep
    reads,        \* number of urls:<station> sets read in the current sweep that held the URL
    exitStatus,   \* the process's exit status once pc = "STOPPED"
    escaped,      \* the exception that left check_urls / the main module
    signalAt,     \* where the sentinel was when the host delivered SIGINT ("none" before)
    dashR,        \* dashboard: the module-level r, "client" or "None"
    dash,         \* dashboard: per worker, the request it is serving
    nreq,         \* number of dashboard requests received so far
    addedAt       \* per URL, check_count when its last add_url returned 'URL added',
                  \* -1 when there was none or the URL has been removed from a set since

sentinelVars == <<pc, caller, attempt, check_count, iterStations, all_urls, todo,
                  url, outcome, statusLocal, e, probes, reads, exitStatus, escaped, signalAt>>
storeVars == <<stations, urls, status>>
envVars == <<backend, faults, limits>>
dashVars == <<dashR, dash, nreq, addedAt>>

-----------------------------------------------------------------------------
(* Bounds *)
MaxElapsed == 0    \* largest response time, in ms, the sweep model draws
MaxSweeps == 1     \* sweeps started (cap on check_count)
MaxFaults == 1     \* backend changes
MaxRequests == 2   \* dashboard requests that reach the store
SentinelMaxSweeps == 2  \* sweeps and backend changes, for SentinelSpec
SentinelMaxFaults == 2
SweepMaxSweeps == 1    \* the same three bounds, for SweepSpec
SweepMaxFaults == 1
SweepMaxRequests == 1
MaxProbeElapsed == 2   \* largest response time, in ms, ProbeSpec draws

(* Program constants *)
max_retries == 5

StationNames == {"General", "Work"}
Urls == {"https://example.com", "https://nonexistent.invalid"}
Absent == "<absent>"
NoUrl == "<none>"

(* What one requests.get call does: a response, or an exception class.      *)
(* elapsed is the value int((time.time() - start_time) * 1000) of line 62:  *)
(* whole milliseconds between the two clock readings, the second taken to   *)
(* be no earlier than the first.                                            *)
Response(c, ms) == [kind |-> "response", status_code |-> c, elapsed |-> ms, exc |-> "none"]
Raised(cls) == [kind |-> "raise", status_code |-> 0, elapsed |-> 0, exc |-> cls]
NoOutcome == [kind |-> "none", status_code |-> 0, elapsed |-> 0, exc |-> "none"]

-----------------------------------------------------------------------------
(* Exception classes: the direct base classes of each class that can be     *)
(* raised by requests.get, by a Redis command, or by the host.              *)
Bases(c) ==
    CASE c = "requests.ConnectTimeout"   -> {"requests.ConnectionError", "requests.Timeout"}
      [] c = "requests.ReadTimeout"      -> {"requests.Timeout"}
      [] c = "requests.Timeout"          -> {"requests.RequestException"}
      [] c = "requests.SSLError"         -> {"requests.ConnectionError"}
      [] c = "requests.ProxyError"       -> {"requests.ConnectionError"}
      [] c = "requests.ConnectionError"  -> {"requests.RequestException"}
      [] c = "requests.TooManyRedirects" -> {"requests.RequestException"}
      [] c = "requests.HTTPError"        -> {"requests.RequestException"}
      [] c = "requests.InvalidURL"       -> {"requests.RequestException", "ValueError"}
      [] c = "requests.MissingSchema"    -> {"requests.RequestException", "ValueError"}
      [] c = "requests.ChunkedEncodingError" -> {"requests.RequestException"}
      [] c = "requests.RequestException" -> {"OSError"}
      [] c = "redis.ConnectionError"     -> {"redis.RedisError"}
      [] c = "redis.TimeoutError"        -> {"redis.RedisError"}
      [] c = "redis.RedisError"          -> {"Exception"}
      [] c = "OSError"                   -> {"Exception"}
      [] c = "ValueError"                -> {"Exception"}
      [] c = "UnicodeError"              -> {"ValueError"}
      [] c = "AttributeError"            -> {"Exception"}
      [] c = "Exception"                 -> {"BaseException"}
      [] c = "KeyboardInterrupt"         -> {"BaseException"}
      [] c = "SystemExit"                -> {"BaseException"}
      [] OTHER                           -> {}

RECURSIVE IsInstance(_, _)
IsInstance(c, cls) == c = cls \/ \E b \in Bases(c) : IsInstance(b, cls)

-----------------------------------------------------------------------------
(* check_url *)
FmtUp(response_time) == "UP (" \o ToString(response_time) \o "ms)"
FmtDown(status_code) == "DOWN (" \o ToString(status_code) \o ")"

(* Mutants of the except clauses: the connection clause first; the last     *)
(* clause missing.                                                          *)
ExceptClausesConnectionFirst ==
    << [cls |-> "requests.ConnectionError",  ret |-> "DOWN (Connection Error)"],
       [cls |-> "requests.Timeout",          ret |-> "DOWN (Timeout)"],
       [cls |-> "requests.TooManyRedirects", ret |-> "DOWN (Too Many Redirects)"],
       [cls |-> "requests.RequestException", ret |-> "DOWN (Error)"],
       [cls |-> "Exception",                 ret |-> "DOWN (Unknown Error)"] >>
ExceptClausesNoCatchAll ==
    << [cls |-> "requests.Timeout",          ret |-> "DOWN (Timeout)"],
       [cls |-> "requests.ConnectionError",  ret |-> "DOWN (Connection Error)"],
       [cls |-> "requests.TooManyRedirects", ret |-> "DOWN (Too Many Redirects)"],
       [cls |-> "requests.RequestException", ret |-> "DOWN (Error)"] >>

(* The except clauses of check_url, in source order. *)
ExceptClauses ==
    << [cls |-> "requests.Timeout",          ret |-> "DOWN (Timeout)"],
       [cls |-> "requests.ConnectionError",  ret |-> "DOWN (Connection Error)"],
       [cls |-> "requests.TooManyRedirects", ret |-> "DOWN (Too Many Redirects)"],
       [cls |-> "requests.RequestException", ret |-> "DOWN (Error)"],
       [cls |-> "Exception",                 ret |-> "DOWN (Unknown Error)"] >>

(* Index of the first clause that catches exc, 0 when none does. *)
RECURSIVE FirstHandler(_, _, _)
FirstHandler(clauses, exc, i) ==
    IF i > Len(clauses) THEN 0
    ELSE IF IsInstance(exc, clauses[i].cls) THEN i
    ELSE FirstHandler(clauses, exc, i + 1)

Return(v) == [kind |-> "return", value |-> v]
Propagate(exc) == [kind |-> "raise", value |-> exc]

check_url(o) ==
    IF o.kind = "response"
    THEN IF o.status_code = 200
         THEN Return(FmtUp(o.elapsed))
         ELSE Return(FmtDown(o.status_code))
    ELSE LET i == FirstHandler(ExceptClauses, o.exc, 1)
         IN  IF i = 0 THEN Propagate(o.exc) ELSE Return(ExceptClauses[i].ret)

(* Everything requests.get is taken to do in the model of check_url. *)
StatusCodes == {200, 201, 204, 301, 304, 400, 401, 403, 404, 429, 500, 502, 503}
RequestsErrors ==
    {"requests.ConnectTimeout", "requests.ReadTimeout", "requests.Timeout",
     "requests.SSLError", "requests.ProxyError", "requests.ConnectionError",
     "requests.TooManyRedirects", "requests.HTTPError", "requests.InvalidURL",
     "requests.MissingSchema", "requests.ChunkedEncodingError",
     "requests.RequestException"}
OtherErrors == {"ValueError", "UnicodeError", "AttributeError", "OSError", "Exception"}
ProbeOutcomes ==
    {Response(c, ms) : c \in StatusCodes, ms \in 0..MaxProbeElapsed}
        \cup {Raised(x) : x \in RequestsErrors \cup OtherErrors}

(* The outcomes the sweep model draws for a probe. *)
SweepOutcomes ==
    {Response(200, ms) : ms \in 0..MaxElapsed}
        \cup {Raised("requests.ConnectTimeout")}

-----------------------------------------------------------------------------
(* The exception a Redis command raises, "none" when it succeeds. *)
RedisError(b) ==
    CASE b = "down"    -> "redis.ConnectionError"
      [] b = "timeout" -> "redis.TimeoutError"
      [] OTHER         -> "none"

BackendChange ==
    /\ faults < limits.faults
    /\ \E b \in {"up", "down", "timeout"} \ {backend} : backend' = b
    /\ faults' = faults + 1
    /\ UNCHANGED limits
    /\ UNCHANGED <<storeVars, sentinelVars, dashVars>>

-----------------------------------------------------------------------------
(* Control flow of the sentinel: where an exception raised at pc lands. *)
InConnectTry == pc \in {"ping", "exists", "sadd"}
InConnectHandler == pc = "retry_sleep"
InInnerTry == pc \in {"check_url", "set_status"}

Goto(p) == pc' = p /\ UNCHANGED <<caller, attempt, exitStatus, escaped>>

SysExit(code) ==
    /\ pc' = "STOPPED"
    /\ exitStatus' = code
    /\ escaped' = "SystemExit"
    /\ UNCHANGED <<caller, attempt>>

(* An exception nothing catches ends the interpreter with a traceback; an   *)
(* uncaught KeyboardInterrupt ends it with status 1 or by SIGINT (130).      *)
Uncaught(exc) ==
    /\ pc' = "STOPPED"
    /\ escaped' = exc
    /\ exitStatus' \in (IF exc = "KeyboardInterrupt" THEN {1, 130} ELSE {1})
    /\ UNCHANGED <<caller, attempt>>

CallConnect(from) ==
    /\ pc' = "ping"
    /\ caller' = from
    /\ attempt' = 0
    /\ UNCHANGED <<exitStatus, escaped>>

(* Mutant of ConnectExcept: the last attempt sleeps too. *)
ConnectExceptSleepLast ==
    IF attempt < max_retries THEN Goto("retry_sleep") ELSE SysExit(1)

(* connect_redis, lines 49-55 *)
ConnectExcept ==
    IF attempt < max_retries - 1 THEN Goto("retry_sleep") ELSE SysExit(1)

(* Mutant of OuterExcept: every Exception is handled as a lost connection. *)
OuterExceptReconnectAll(exc) ==
    IF IsInstance(exc, "Exception") THEN CallConnect("check_urls")
    ELSE IF IsInstance(exc, "KeyboardInterrupt") THEN SysExit(0)
    ELSE Uncaught(exc)

(* check_urls, lines 135-144 *)
OuterExcept(exc) ==
    IF IsInstance(exc, "redis.ConnectionError") THEN CallConnect("check_urls")
    ELSE IF IsInstance(exc, "KeyboardInterrupt") THEN SysExit(0)
    ELSE IF IsInstance(exc, "Exception") THEN Goto("error_delay")
    ELSE Uncaught(exc)

(* check_urls, lines 126-127 *)
InnerExcept(exc) ==
    IF IsInstance(exc, "Exception") THEN Goto("handler_set") ELSE OuterExcept(exc)

Raise(exc) ==
    IF InConnectTry /\ IsInstance(exc, "Exception") THEN ConnectExcept
    ELSE IF InConnectTry \/ InConnectHandler \/ pc = "error_delay" THEN Uncaught(exc)
    ELSE IF InInnerTry THEN InnerExcept(exc)
    ELSE OuterExcept(exc)

-----------------------------------------------------------------------------
(* The locals of check_urls.  They are live from the enumeration to the end *)
(* of the sweep; outside it (connecting, error delay, process ended) the    *)
(* code reads none of them before line 98 and line 101 assign them again.   *)
NoProbes == [u \in Urls |-> 0]
InSweep(p) == p \in {"smembers_urls", "check_url", "set_status", "handler_set", "interval_sleep"}

Locals(it, au, td, u, o, st, ex, pr, rd) ==
    LET live == InSweep(pc')
    IN  /\ iterStations' = IF live THEN it ELSE {}
        /\ all_urls' = IF live THEN au ELSE {}
        /\ todo' = IF live THEN td ELSE {}
        /\ url' = IF live THEN u ELSE NoUrl
        /\ outcome' = IF live THEN o ELSE NoOutcome
        /\ statusLocal' = IF live THEN st ELSE ""
        /\ e' = IF pc' = "handler_set" THEN ex ELSE "none"
        /\ probes' = IF live THEN pr ELSE NoProbes
        /\ reads' = IF live THEN rd ELSE NoProbes

KeepLocals == Locals(iterStations, all_urls, todo, url, outcome, statusLocal, e, probes, reads)

-----------------------------------------------------------------------------
(* connect_redis *)

(* 'return r': both call sites continue at the top of the while loop. *)
ConnectReturn == Goto("smembers_stations")

(* lines 29-40: redis.Redis(...) and r.ping() *)
ConnPing ==
    /\ pc = "ping"
    /\ IF RedisError(backend) = "none" THEN Goto("exists") ELSE Raise(RedisError(backend))
    /\ KeepLocals
    /\ UNCHANGED <<check_count, storeVars, envVars, signalAt, dashVars>>

(* Mutant of ConnExists: the default station is not created. *)
ConnExistsNoDefault ==
    /\ pc = "exists"
    /\ IF RedisError(backend) = "none" THEN ConnectReturn ELSE Raise(RedisError(backend))
    /\ KeepLocals
    /\ UNCHANGED <<check_count, storeVars, envVars, signalAt, dashVars>>

(* line 43: r.exists('stations') *)
ConnExists ==
    /\ pc = "exists"
    /\ IF RedisError(backend) = "none"
       THEN IF stations = {} THEN Goto("sadd") ELSE ConnectReturn
       ELSE Raise(RedisError(backend))
    /\ KeepLocals
    /\ UNCHANGED <<check_count, storeVars, envVars, signalAt, dashVars>>

(* lines 44-48: r.sadd('stations', 'General'); return r *)
ConnSadd ==
    /\ pc = "sadd"
    /\ IF RedisError(backend) = "none"
       THEN stations' = stations \cup {"General"} /\ ConnectReturn
       ELSE UNCHANGED stations /\ Raise(RedisError(backend))
    /\ KeepLocals
    /\ UNCHANGED <<check_count, urls, status, envVars, signalAt, dashVars>>

(* lines 51-52, then the next iteration of the for loop *)
ConnRetrySleep ==
    /\ pc = "retry_sleep"
    /\ pc' = "ping"
    /\ attempt' = attempt + 1
    /\ KeepLocals
    /\ UNCHANGED <<caller, exitStatus, escaped, check_count, storeVars, envVars,
                   signalAt, dashVars>>

-----------------------------------------------------------------------------
(* check_urls *)

(* Mutant of update: all_urls = station_urls *)
updateAssign(all, station_urls) == station_urls

(* line 104: all_urls.update(station_urls) *)
update(all, station_urls) == all \cup station_urls

(* The targets left after the except clause of lines 126-128 has run. *)
AfterError(t, u) == t

(* Mutant of NextTarget: the loop ends after its first url. *)
NextTargetBreak(t) == Goto("interval_sleep")

(* The for loop of line 112 moves on to the next url, or ends. *)
NextTarget(t) == Goto(IF t = {} THEN "interval_sleep" ELSE "check_url")

(* lines 94-101: check_count += 1; stations = r.smembers('stations') *)
SmembersStations ==
    /\ pc = "smembers_stations"
    /\ check_count < limits.sweeps
    /\ check_count' = check_count + 1
    /\ IF RedisError(backend) = "none"
       THEN Goto(IF stations = {} THEN "interval_sleep" ELSE "smembers_urls")
       ELSE Raise(RedisError(backend))
    /\ Locals(stations, {}, {}, NoUrl, NoOutcome, "", "none", NoProbes, NoProbes)
    /\ UNCHANGED <<storeVars, envVars, signalAt, dashVars>>

(* Mutant of SmembersUrls: the for loop of line 112 is entered even when    *)
(* all_urls is empty.                                                       *)
SmembersUrlsNoEmptyCase ==
    /\ pc = "smembers_urls"
    /\ \E station \in iterStations :
          IF RedisError(backend) = "none"
          THEN LET all == update(all_urls, urls[station])
                   rest == iterStations \ {station}
               IN  /\ Goto(IF rest # {} THEN "smembers_urls" ELSE "check_url")
                   /\ Locals(rest, all, IF rest = {} THEN all ELSE {}, url, outcome,
                             statusLocal, "none", probes,
                             [u \in Urls |-> reads[u] + IF u \in urls[station] THEN 1 ELSE 0])
          ELSE Raise(RedisError(backend)) /\ KeepLocals
    /\ UNCHANGED <<check_count, storeVars, envVars, signalAt, dashVars>>

(* lines 102-110: one iteration of 'for station in stations' *)
SmembersUrls ==
    /\ pc = "smembers_urls"
    /\ \E station \in iterStations :
          IF RedisError(backend) = "none"
          THEN LET all == update(all_urls, urls[station])
                   rest == iterStations \ {station}
               IN  /\ Goto(IF rest # {} THEN "smembers_urls"
                           ELSE IF all = {} THEN "interval_sleep" ELSE "check_url")
                   /\ Locals(rest, all, IF rest = {} THEN all ELSE {}, url, outcome,
                             statusLocal, "none", probes,
                             [u \in Urls |-> reads[u] + IF u \in urls[station] THEN 1 ELSE 0])
          ELSE Raise(RedisError(backend)) /\ KeepLocals
    /\ UNCHANGED <<check_count, storeVars, envVars, signalAt, dashVars>>

(* lines 112-114: the next url of all_urls; status = check_url(url, headers) *)
CheckUrl ==
    /\ pc = "check_url"
    /\ \E u \in todo, o \in limits.outcomes :
          LET res == check_url(o)
              counted == [probes EXCEPT ![u] = @ + 1]
          IN  IF res.kind = "return"
              THEN /\ Goto("set_status")
                   /\ Locals(iterStations, all_urls, todo \ {u}, u, o, res.value, "none", counted, reads)
              ELSE /\ Raise(res.value)
                   /\ Locals(iterStations, all_urls, todo \ {u}, u, o, statusLocal, res.value, counted,
                          reads)
    /\ UNCHANGED <<check_count, storeVars, envVars, signalAt, dashVars>>

(* lines 115-124: r.set(f"status:{url}", status); log; time.sleep(0.1) *)
SetStatus ==
    /\ pc = "set_status"
    /\ IF RedisError(backend) = "none"
       THEN /\ status' = [status EXCEPT ![url] = statusLocal]
            /\ NextTarget(todo)
       ELSE /\ UNCHANGED status
            /\ Raise(RedisError(backend))
    /\ Locals(iterStations, all_urls, todo, url, outcome, statusLocal, RedisError(backend),
              probes, reads)
    /\ UNCHANGED <<check_count, stations, urls, envVars, signalAt, dashVars>>

(* Mutant of HandlerSet: the handler deletes the status key. *)
HandlerSetDelete ==
    /\ pc = "handler_set"
    /\ IF RedisError(backend) = "none"
       THEN /\ status' = [status EXCEPT ![url] = Absent]
            /\ NextTarget(AfterError(todo, url))
            /\ Locals(iterStations, all_urls, AfterError(todo, url), url, outcome,
                      statusLocal, "none", probes, reads)
       ELSE /\ UNCHANGED status
            /\ Raise(RedisError(backend))
            /\ KeepLocals
    /\ UNCHANGED <<check_count, stations, urls, envVars, signalAt, dashVars>>

(* lines 126-128: r.set(f"status:{url}", "DOWN (Processing Error)") *)
HandlerSet ==
    /\ pc = "handler_set"
    /\ IF RedisError(backend) = "none"
       THEN /\ status' = [status EXCEPT ![url] = "DOWN (Processing Error)"]
            /\ NextTarget(AfterError(todo, url))
            /\ Locals(iterStations, all_urls, AfterError(todo, url), url, outcome,
                      statusLocal, "none", probes, reads)
       ELSE /\ UNCHANGED status
            /\ Raise(RedisError(backend))
            /\ KeepLocals
    /\ UNCHANGED <<check_count, stations, urls, envVars, signalAt, dashVars>>

(* lines 130-133: time.sleep(CHECK_INTERVAL) *)
IntervalSleep ==
    /\ pc = "interval_sleep"
    /\ Goto("smembers_stations")
    /\ KeepLocals
    /\ UNCHANGED <<check_count, storeVars, envVars, signalAt, dashVars>>

(* lines 142-144: time.sleep(5) *)
ErrorDelay ==
    /\ pc = "error_delay"
    /\ Goto("smembers_stations")
    /\ KeepLocals
    /\ UNCHANGED <<check_count, storeVars, envVars, signalAt, dashVars>>

(* The host delivers SIGINT: KeyboardInterrupt is raised where the sentinel is. *)
Signal ==
    /\ pc # "STOPPED"
    /\ signalAt = "none"
    /\ signalAt' = pc
    /\ Raise("KeyboardInterrupt")
    /\ KeepLocals
    /\ UNCHANGED <<check_count, storeVars, envVars, dashVars>>

-----------------------------------------------------------------------------
(* The dashboard: Flask serves each request on its own thread.  Threads are *)
(* interchangeable, so a request is given to the first idle one.            *)
Workers == {1, 2}
Idle == [pc |-> "idle", url |-> NoUrl, station |-> "", scan |-> {}]

(* Form inputs.  A raw URL is its scheme prefix, the text after it and the  *)
(* number of trailing slashes.                                              *)
RawUrl(scheme, rest, slashes) == [scheme |-> scheme, rest |-> rest, slashes |-> slashes]
RawUrls ==
    { RawUrl("", "", 0), RawUrl("", "example.com", 0),
      RawUrl("https://", "example.com", 1), RawUrl("https://", "nonexistent.invalid", 0) }
LongName == "a-station-name-that-is-longer-than-fifty-characters"
NameInputs == StationNames \cup {"", LongName}

(* 'if url': the raw string is not empty *)
Truthy(raw) == raw.scheme # "" \/ raw.rest # "" \/ raw.slashes > 0

(* add_url, lines 164-166 *)
Normalize(raw) ==
    (IF raw.scheme \in {"http://", "https://"} THEN raw.scheme ELSE "https://") \o raw.rest

(* check_redis_connection *)
check_redis_connection == dashR = "client" /\ RedisError(backend) = "none"

(* lines 20-33: the module-level r after the import, on backend b *)
ImportR(b) == IF RedisError(b) = "none" THEN "client" ELSE "None"

Serving(w, p) == dash[w].pc = p
Step(w, p) == dash' = [dash EXCEPT ![w].pc = p]
Done(w) == dash' = [dash EXCEPT ![w] = Idle]

(* A request arrives at an idle worker: the handler runs up to its first    *)
(* Redis command after check_redis_connection().                            *)
Receive(w, valid, p, u, s) ==
    /\ w \in limits.workers
    /\ Serving(w, "idle")
    /\ \A v \in Workers : v < w => ~Serving(v, "idle")
    /\ nreq < limits.requests
    /\ IF check_redis_connection /\ valid
       THEN /\ dash' = [dash EXCEPT ![w] = [pc |-> p, url |-> u, station |-> s, scan |-> {}]]
            /\ nreq' = nreq + 1
       ELSE UNCHANGED <<dash, nreq>>
    /\ UNCHANGED <<dashR, addedAt, storeVars, envVars, sentinelVars>>

(* What a handler's command at p, when it succeeds, does to the record of   *)
(* completed registrations: line 173 completes one; lines 139-140 and 195   *)
(* remove URLs from a station.                                              *)
Stamp(w, p) ==
    CASE p = "au_set"  -> [addedAt EXCEPT ![dash[w].url] = check_count]
      [] p = "du_srem" -> [addedAt EXCEPT ![dash[w].url] = -1]
      [] p \in {"ds_srem", "ds_delete"} ->
            [u \in Urls |-> IF u \in urls[dash[w].station] THEN -1 ELSE addedAt[u]]
      [] OTHER -> addedAt

(* A Redis command of a handler: on an exception the handler's              *)
(* 'except Exception' flashes an error and the request ends.                *)
Command(w, p, effect) ==
    /\ Serving(w, p)
    /\ IF RedisError(backend) = "none"
       THEN effect /\ addedAt' = Stamp(w, p)
       ELSE Done(w) /\ UNCHANGED <<storeVars, addedAt>>
    /\ UNCHANGED <<dashR, nreq, envVars, sentinelVars>>

(* add_station, lines 103-112 *)
AddStationReceive(w) ==
    \E name \in NameInputs :
        Receive(w, name # "" /\ Len(name) <= 50, "as_smembers", NoUrl, name)

(* line 113: name in r.smembers('stations') *)
AddStationSmembers(w) ==
    Command(w, "as_smembers",
        /\ IF dash[w].station \in stations THEN Done(w) ELSE Step(w, "as_sadd")
        /\ UNCHANGED storeVars)

(* line 116: r.sadd('stations', name) *)
AddStationSadd(w) ==
    Command(w, "as_sadd",
        /\ stations' = stations \cup {dash[w].station}
        /\ Done(w)
        /\ UNCHANGED <<urls, status>>)

(* Mutant of DeleteStationReceive: General is not protected. *)
DeleteStationReceiveAny(w) ==
    \E name \in StationNames \cup {""} :
        Receive(w, name # "", "ds_scard", NoUrl, name)

(* delete_station, lines 129-135 *)
DeleteStationReceive(w) ==
    \E name \in StationNames \cup {""} :
        Receive(w, name # "" /\ name # "General", "ds_scard", NoUrl, name)

(* line 137: r.scard(f'urls:{name}') *)
DeleteStationScard(w) ==
    Command(w, "ds_scard", Step(w, "ds_srem") /\ UNCHANGED storeVars)

(* line 139: r.srem('stations', name) *)
DeleteStationSrem(w) ==
    Command(w, "ds_srem",
        /\ stations' = stations \ {dash[w].station}
        /\ Step(w, "ds_delete")
        /\ UNCHANGED <<urls, status>>)

(* line 140: r.delete(f'urls:{name}') *)
DeleteStationDelete(w) ==
    Command(w, "ds_delete",
        /\ urls' = [urls EXCEPT ![dash[w].station] = {}]
        /\ Done(w)
        /\ UNCHANGED <<stations, status>>)

(* add_url, lines 154-166 *)
AddUrlReceive(w) ==
    \E raw \in RawUrls, station \in StationNames \cup {""} :
        Receive(w, Truthy(raw) /\ station # "", "au_smembers", Normalize(raw), station)

(* line 169: url in r.smembers(f'urls:{station}') *)
AddUrlSmembers(w) ==
    Command(w, "au_smembers",
        /\ IF dash[w].url \in urls[dash[w].station] THEN Done(w) ELSE Step(w, "au_sadd")
        /\ UNCHANGED storeVars)

(* line 172: r.sadd(f'urls:{station}', url) *)
AddUrlSadd(w) ==
    Command(w, "au_sadd",
        /\ urls' = [urls EXCEPT ![dash[w].station] = @ \cup {dash[w].url}]
        /\ Step(w, "au_set")
        /\ UNCHANGED <<stations, status>>)

(* line 173: r.set(f"status:{url}", "PENDING") *)
AddUrlSet(w) ==
    Command(w, "au_set",
        /\ status' = [status EXCEPT ![dash[w].url] = "PENDING"]
        /\ Done(w)
        /\ UNCHANGED <<stations, urls>>)

(* delete_url, lines 186-194 *)
DeleteUrlReceive(w) ==
    \E u \in Urls \cup {""}, station \in StationNames \cup {""} :
        Receive(w, u # "" /\ station # "", "du_srem", u, station)

(* line 195: r.srem(f'urls:{station}', url) *)
DeleteUrlSrem(w) ==
    Command(w, "du_srem",
        /\ urls' = [urls EXCEPT ![dash[w].station] = @ \ {dash[w].url}]
        /\ Step(w, "du_smembers")
        /\ UNCHANGED <<stations, status>>)

(* lines 198-199: for s in r.smembers('stations') *)
DeleteUrlSmembers(w) ==
    Command(w, "du_smembers",
        /\ dash' = [dash EXCEPT ![w].scan = stations,
                                ![w].pc = IF stations = {} THEN "du_delete" ELSE "du_scan"]
        /\ UNCHANGED storeVars)

(* lines 200-204: url in r.smembers(f'urls:{s}'); break when found *)
DeleteUrlScan(w) ==
    Command(w, "du_scan",
        /\ \E s \in dash[w].scan :
              IF dash[w].url \in urls[s]
              THEN Done(w)
              ELSE dash' = [dash EXCEPT ![w].scan = @ \ {s},
                                        ![w].pc = IF dash[w].scan = {s}
                                                  THEN "du_delete" ELSE "du_scan"]
        /\ UNCHANGED storeVars)

(* line 205: r.delete(f"status:{url}") *)
DeleteUrlDelete(w) ==
    Command(w, "du_delete",
        /\ status' = [status EXCEPT ![dash[w].url] = Absent]
        /\ Done(w)
        /\ UNCHANGED <<stations, urls>>)

(* index, lines 47-53 *)
IndexReceive(w) == Receive(w, TRUE, "ix_smembers", NoUrl, "")

(* lines 53-54: stations = sorted(list(r.smembers('stations'))) *)
IndexSmembers(w) ==
    Command(w, "ix_smembers",
        /\ IF stations = {} THEN Step(w, "ix_sadd") ELSE Done(w)
        /\ UNCHANGED storeVars)

(* lines 56-95: r.sadd('stations', 'General'); the reads that follow change nothing *)
IndexSadd(w) ==
    Command(w, "ix_sadd",
        /\ stations' = stations \cup {"General"}
        /\ Done(w)
        /\ UNCHANGED <<urls, status>>)

-----------------------------------------------------------------------------
vars == <<storeVars, envVars, sentinelVars, dashVars>>

(* The store the processes start on: a fresh Redis, or one the dashboard has *)
(* filled earlier (add_station Work, then add_url of example.com to General *)
(* and of both URLs to Work).                                               *)
EmptyStore ==
    [stations |-> {}, urls |-> [s \in StationNames |-> {}], status |-> [u \in Urls |-> Absent]]
FilledStore ==
    [stations |-> {"General", "Work"},
     urls     |-> [s \in StationNames |-> IF s = "General" THEN {"https://example.com"} ELSE Urls],
     status   |-> [u \in Urls |-> "PENDING"]]

Limits(sw, fa, rq, ws, out) ==
    [sweeps |-> sw, faults |-> fa, requests |-> rq, workers |-> ws, outcomes |-> out]

(* Both processes have just started: the sentinel is in the connect_redis   *)
(* call of line 154, the dashboard has been imported.                       *)
Started(l) ==
    /\ \E store \in {EmptyStore, FilledStore} :
          /\ stations = store.stations
          /\ urls = store.urls
          /\ status = store.status
          /\ addedAt = [u \in Urls |-> IF store.status[u] = Absent THEN -1 ELSE 0]
    /\ backend \in {"up", "down"}
    /\ faults = 0
    /\ limits = l
    /\ pc = "ping"
    /\ caller = "main"
    /\ attempt = 0
    /\ check_count = 0
    /\ iterStations = {}
    /\ all_urls = {}
    /\ todo = {}
    /\ url = NoUrl
    /\ outcome = NoOutcome
    /\ statusLocal = ""
    /\ e = "none"
    /\ probes = NoProbes
    /\ reads = NoProbes
    /\ exitStatus = -1
    /\ escaped = "none"
    /\ signalAt = "none"
    /\ dashR = ImportR(backend)
    /\ dash = [w \in Workers |-> Idle]
    /\ nreq = 0

Init == Started(Limits(MaxSweeps, MaxFaults, MaxRequests, Workers, SweepOutcomes))

SentinelNext ==
    \/ BackendChange
    \/ ConnPing
    \/ ConnExists
    \/ ConnSadd
    \/ ConnRetrySleep
    \/ SmembersStations
    \/ SmembersUrls
    \/ CheckUrl
    \/ SetStatus
    \/ HandlerSet
    \/ IntervalSleep
    \/ ErrorDelay
    \/ Signal

DashboardNext ==
    \/ \E w \in Workers : AddStationReceive(w)
    \/ \E w \in Workers : AddStationSmembers(w)
    \/ \E w \in Workers : AddStationSadd(w)
    \/ \E w \in Workers : DeleteStationReceive(w)
    \/ \E w \in Workers : DeleteStationScard(w)
    \/ \E w \in Workers : DeleteStationSrem(w)
    \/ \E w \in Workers : DeleteStationDelete(w)
    \/ \E w \in Workers : AddUrlReceive(w)
    \/ \E w \in Workers : AddUrlSmembers(w)
    \/ \E w \in Workers : AddUrlSadd(w)
    \/ \E w \in Workers : AddUrlSet(w)
    \/ \E w \in Workers : DeleteUrlReceive(w)
    \/ \E w \in Workers : DeleteUrlSrem(w)
    \/ \E w \in Workers : DeleteUrlSmembers(w)
    \/ \E w \in Workers : DeleteUrlScan(w)
    \/ \E w \in Workers : DeleteUrlDelete(w)
    \/ \E w \in Workers : IndexReceive(w)
    \/ \E w \in Workers : IndexSmembers(w)
    \/ \E w \in Workers : IndexSadd(w)

Next == SentinelNext \/ DashboardNext

Spec == Init /\ [][Next]_vars

(* The sentinel alone on a store nobody else writes. *)
SentinelInit ==
    Started(Limits(SentinelMaxSweeps, SentinelMaxFaults, 0, {}, SweepOutcomes))

SentinelSpec == SentinelInit /\ [][SentinelNext]_vars

(* The same system with the dashboard serving one request at a time, and   *)
(* one probe outcome of each kind: a 200 response and a failure.            *)
UpOrDown == {Response(200, 0), Raised("requests.ConnectTimeout")}
SweepInit ==
    Started(Limits(SweepMaxSweeps, SweepMaxFaults, SweepMaxRequests, {1}, UpOrDown))

SweepSpec == SweepInit /\ [][Next]_vars

(* check_url alone: the sentinel is about to probe the only URL of its      *)
(* working set, and requests.get can do anything ProbeOutcomes lists.       *)
ProbeInit ==
    /\ \E u \in Urls :
          /\ stations = {"General"}
          /\ urls = [s \in StationNames |-> IF s = "General" THEN {u} ELSE {}]
          /\ status = [v \in Urls |-> IF v = u THEN "PENDING" ELSE Absent]
          /\ all_urls = {u}
          /\ todo = {u}
          /\ reads = [v \in Urls |-> IF v = u THEN 1 ELSE 0]
          /\ addedAt = [v \in Urls |-> IF v = u THEN 0 ELSE -1]
    /\ backend = "up"
    /\ faults = 0
    /\ limits = Limits(1, 0, 0, {}, ProbeOutcomes)
    /\ pc = "check_url"
    /\ caller = "main"
    /\ attempt = 0
    /\ check_count = 1
    /\ iterStations = {}
    /\ url = NoUrl
    /\ outcome = NoOutcome
    /\ statusLocal = ""
    /\ e = "none"
    /\ probes = NoProbes
    /\ exitStatus = -1
    /\ escaped = "none"
    /\ signalAt = "none"
    /\ dashR = "client"
    /\ dash = [w \in Workers |-> Idle]
    /\ nreq = 0

(* The sentinel alone, its connect_redis steps taken whenever they can be:  *)
(* the calls of lines 31-52 return or raise, and the sleep of line 52 ends. *)
ConnectSpec ==
    /\ SentinelInit
    /\ [][SentinelNext]_vars
    /\ WF_vars(ConnPing \/ ConnExists \/ ConnSadd \/ ConnRetrySleep)

(* The dashboard alone: the sentinel has not been started. *)
DashboardInit == Started(Limits(0, 0, MaxRequests, Workers, {}))

DashboardSpec == DashboardInit /\ [][DashboardNext]_vars

ProbeNext == CheckUrl

ProbeSpec == ProbeInit /\ [][ProbeNext]_vars

-----------------------------------------------------------------------------
(* Properties *)

Referenced(u) == \E s \in stations : u \in urls[s]

(* C1: a status write that raises does not abort the sweep and leaves the   *)
(* target's status at its prior value.  The sentinel is at handler_set      *)
(* exactly when the write of line 115 has raised, with e the error; when e  *)
(* is no connection-level error then, short of a shutdown signal, its next  *)
(* move must be on to the next target (or to the interval sleep after the   *)
(* last one) with status:<url> untouched.                                   *)
C1_WriteFailureKeepsSweepAndStatus ==
    [][(/\ pc = "handler_set"
        /\ e # "redis.ConnectionError"
        /\ pc' # "handler_set"
        /\ signalAt' = signalAt)
          => /\ pc' \in {"check_url", "interval_sleep"}
             /\ status'[url] = status[url]]_vars

(* C2: without a shutdown signal the process ends only when the             *)
(* connect_redis call made at startup has used up its retries.              *)
C2_ExitOnlyOnInitialExhaustion ==
    (pc = "STOPPED" /\ signalAt = "none")
        => (exitStatus = 1 /\ caller = "main" /\ attempt = max_retries - 1)

(* C3: every existing status value is PENDING, UP (<n>ms) or DOWN (<reason>) *)
(* with <reason> a probe classification or an HTTP status code.              *)
ProbeReasons ==
    {"Timeout", "Connection Error", "Too Many Redirects", "Error", "Unknown Error"}
        \cup {ToString(c) : c \in 100..599}
StatusTaxonomy ==
    {"PENDING"}
        \cup {"UP (" \o ToString(n) \o "ms)" : n \in 0..(MaxElapsed + MaxProbeElapsed)}
        \cup {"DOWN (" \o r \o ")" : r \in ProbeReasons}
C3_StatusInTaxonomy ==
    \A u \in Urls : status[u] # Absent => status[u] \in StatusTaxonomy

(* C4: status:<url> is never deleted while a station of 'stations' still    *)
(* has <url> in its set.                                                    *)
C4_NoDeleteWhileReferenced ==
    [][\A u \in Urls :
          (status[u] # Absent /\ status'[u] = Absent) => ~Referenced(u)]_vars

(* C5: a shutdown signal delivered while the scheduler is enumerating,      *)
(* probing, writing a status, sleeping, in the error delay or reconnecting  *)
(* ends the process with status 0 by the sys.exit of line 141.              *)
SignalInScheduler ==
    /\ signalAt # "none"
    /\ ~(caller = "main" /\ signalAt \in {"ping", "exists", "sadd", "retry_sleep"})
C5_SignalStopsCleanly ==
    SignalInScheduler => (pc = "STOPPED" /\ exitStatus = 0 /\ escaped = "SystemExit")

(* C6: a store command of the sweep that raises a connection-level error    *)
(* makes the scheduler abandon the sweep and call connect_redis: that call  *)
(* is the sentinel's next move after a failed read, and after a failed      *)
(* status write (the sentinel is then at handler_set with e the error).     *)
SentinelMoves == pc' # pc /\ signalAt' = signalAt
InConnectFrom(c) == pc' = "ping" /\ caller' = c /\ attempt' = 0
C6_ConnectionErrorReconnects ==
    [][/\ (pc \in {"smembers_stations", "smembers_urls"} /\ backend = "down" /\ SentinelMoves)
          => InConnectFrom("check_urls")
       /\ (pc = "handler_set" /\ e = "redis.ConnectionError" /\ SentinelMoves)
          => InConnectFrom("check_urls")]_vars

(* C7: in a sweep no URL is probed twice, and when the sweep completes each *)
(* URL read from at least one enumerated station has been probed exactly    *)
(* once and no other URL has, so the number of check_url calls is the size  *)
(* of the union of the sets read.                                           *)
RECURSIVE Total(_, _)
Total(f, S) ==
    IF S = {} THEN 0 ELSE LET x == CHOOSE y \in S : TRUE IN f[x] + Total(f, S \ {x})
SweepCompleted == pc = "interval_sleep"
C7_EachTargetProbedOnce ==
    /\ \A u \in Urls : probes[u] <= 1
    /\ SweepCompleted =>
          /\ \A u \in Urls : probes[u] = (IF reads[u] >= 1 THEN 1 ELSE 0)
          /\ Total(probes, Urls) = Cardinality({u \in Urls : reads[u] >= 1})
C7_Witness ==
    /\ SweepCompleted
    /\ \E u \in Urls : reads[u] = 2 /\ probes[u] = 1 /\ status[u] = "DOWN (Timeout)"
    /\ Total(probes, Urls) = 2

(* C8: check_url classifies by the ordered policy; a connect timeout, which *)
(* is both a timeout and a connection failure, is DOWN (Timeout).           *)
Returned == pc = "set_status"
IsA(cls) == outcome.kind = "raise" /\ IsInstance(outcome.exc, cls)
C8_Classification ==
    Returned =>
        /\ IsA("requests.Timeout") => statusLocal = "DOWN (Timeout)"
        /\ (IsA("requests.ConnectionError") /\ ~IsA("requests.Timeout"))
              => statusLocal = "DOWN (Connection Error)"
        /\ IsA("requests.TooManyRedirects") => statusLocal = "DOWN (Too Many Redirects)"
        /\ (/\ IsA("requests.RequestException")
            /\ ~IsA("requests.Timeout")
            /\ ~IsA("requests.ConnectionError")
            /\ ~IsA("requests.TooManyRedirects"))
              => statusLocal = "DOWN (Error)"
        /\ (outcome.kind = "response" /\ outcome.status_code = 200)
              => /\ outcome.elapsed >= 0
                 /\ statusLocal = "UP (" \o ToString(outcome.elapsed) \o "ms)"
        /\ (outcome.kind = "response" /\ outcome.status_code # 200)
              => statusLocal = "DOWN (" \o ToString(outcome.status_code) \o ")"
C8_Witness ==
    /\ Returned
    /\ outcome = Raised("requests.ConnectTimeout")
    /\ statusLocal = "DOWN (Timeout)"

(* C9: check_url raises nothing to its caller: whatever exception           *)
(* requests.get raised, the caller gets a status string (its except clause  *)
(* of line 126 is never entered from the call), and an exception outside    *)
(* the request-exception classes gives DOWN (Unknown Error).                *)
ExceptionStatuses ==
    {"DOWN (Timeout)", "DOWN (Connection Error)", "DOWN (Too Many Redirects)",
     "DOWN (Error)", "DOWN (Unknown Error)"}
C9_NeverRaises ==
    /\ pc \in {"check_url", "set_status"}
    /\ e = "none"
    /\ escaped = "none"
    /\ (Returned /\ outcome.kind = "raise") => statusLocal \in ExceptionStatuses
    /\ (Returned /\ outcome.kind = "raise" /\ ~IsA("requests.RequestException"))
          => statusLocal = "DOWN (Unknown Error)"
C9_Witness ==
    /\ Returned
    /\ outcome = Raised("ValueError")
    /\ statusLocal = "DOWN (Unknown Error)"

(* C10: a probe status of a URL that stays a member of a station is never   *)
(* set back to PENDING.  The station is one no add_url in flight is adding  *)
(* the URL to, so the URL was registered before.                            *)
BeingAdded(u, s) ==
    \E w \in Workers :
        dash[w].pc \in {"au_sadd", "au_set"} /\ dash[w].url = u /\ dash[w].station = s
C10_ProbedNeverBackToPending ==
    [][\A u \in Urls :
          (/\ status[u] \notin {Absent, "PENDING"}
           /\ \E s \in stations : u \in urls[s] /\ u \in urls'[s] /\ ~BeingAdded(u, s))
             => status'[u] # "PENDING"]_vars

(* C11: a URL whose add_url returned 'URL added' before a sweep's           *)
(* enumeration started (addedAt is the check_count of the sweep before),    *)
(* and which has not been removed from a set since, is in the working set   *)
(* of that sweep once the enumeration is done.                              *)
EnumerationDone == pc \in {"check_url", "set_status", "handler_set", "interval_sleep"}
C11_AddedUrlInNextSweep ==
    EnumerationDone =>
        \A u \in Urls : (addedAt[u] >= 0 /\ addedAt[u] = check_count - 1) => u \in all_urls

(* C12: a step of the sentinel (one that is no step of a dashboard request) *)
(* changes no urls:<station> set, removes no member of stations, adds at    *)
(* most General, and only in the sadd of connect_redis after exists found   *)
(* no stations; it deletes no status key and writes only the status of a    *)
(* URL of the current working set.                                          *)
SentinelStep == dash' = dash /\ nreq' = nreq
C12_SentinelOnlyWritesStatuses ==
    [][SentinelStep =>
          /\ urls' = urls
          /\ stations \subseteq stations'
          /\ stations' # stations => (pc = "sadd" /\ stations' = stations \cup {"General"})
          /\ \A u \in Urls :
                status'[u] # status[u] =>
                    /\ status'[u] # Absent
                    /\ u \in all_urls
                    /\ u = url
                    /\ pc \in {"set_status", "handler_set"}]_vars
C12_Witness ==
    /\ pc = "interval_sleep"
    /\ stations = FilledStore.stations
    /\ urls = FilledStore.urls
    /\ \A u \in Urls : status[u] \notin {Absent, "PENDING"}

(* C13: once General is a member of stations it stays one, whatever the     *)
(* dashboard and the sentinel do; a delete_station request for General      *)
(* never gets to its Redis commands, so it leaves stations and urls:General *)
(* as they are.                                                             *)
InDeleteStation(w) == dash[w].pc \in {"ds_scard", "ds_srem", "ds_delete"}
C13_GeneralStays ==
    [][/\ "General" \in stations => "General" \in stations'
       /\ \A w \in Workers : InDeleteStation(w)' => dash'[w].station # "General"]_vars
C13_Witness ==
    /\ \E w \in Workers : dash[w].pc = "ds_delete" /\ dash[w].station = "Work"
    /\ stations = {"General"}
    /\ urls["Work"] # {}

(* C14: connect_redis returns only from the exists check that found         *)
(* stations not empty, leaving stations as it is, or from the sadd that     *)
(* adds General after the check found it empty; the check is reached only   *)
(* from a ping that succeeded in the same attempt.                          *)
InConnect == pc \in {"ping", "exists", "sadd", "retry_sleep"}
C14_ReturnEnsuresDefaultStation ==
    [][/\ (InConnect /\ pc' = "smembers_stations") =>
             \/ pc = "exists" /\ stations # {} /\ stations' = stations
             \/ pc = "sadd" /\ stations' = stations \cup {"General"}
       /\ (pc' = "exists" /\ pc # "exists") =>
             (pc = "ping" /\ RedisError(backend) = "none" /\ attempt' = attempt)
       /\ (pc' = "sadd" /\ pc # "sadd") =>
             (pc = "exists" /\ stations = {} /\ attempt' = attempt)]_vars
C14_Witness ==
    /\ pc = "smembers_stations"
    /\ caller = "main"
    /\ check_count = 0
    /\ attempt > 0
    /\ stations = {"General"}
    /\ \A u \in Urls : status[u] = Absent

(* C15: connect_redis ends: attempt stays within 0..4 and only grows, by    *)
(* the sleep between two attempts; there is no sleep after the fifth        *)
(* attempt; sys.exit(1) is called when, and only when, the fifth attempt    *)
(* fails; and every call is left again, by return or by ending the process. *)
AttemptFails == InConnectTry /\ RedisError(backend) # "none" /\ SentinelMoves
C15_ConnectTerminates ==
    /\ [](attempt \in 0..(max_retries - 1))
    /\ [](pc = "retry_sleep" => attempt < max_retries - 1)
    /\ [][/\ attempt' # attempt =>
                \/ pc = "retry_sleep" /\ attempt' = attempt + 1
                \/ ~InConnect /\ pc' = "ping" /\ attempt' = 0
          /\ (InConnect /\ escaped' = "SystemExit") =>
                (AttemptFails /\ attempt = max_retries - 1 /\ exitStatus' = 1)
          /\ (AttemptFails /\ attempt = max_retries - 1) =>
                (pc' = "STOPPED" /\ escaped' = "SystemExit" /\ exitStatus' = 1)
          /\ (AttemptFails /\ attempt < max_retries - 1) => pc' = "retry_sleep"]_vars
    /\ (InConnect ~> ~InConnect)
C15_Witness ==
    /\ pc = "STOPPED"
    /\ escaped = "SystemExit"
    /\ exitStatus = 1
    /\ caller = "main"
    /\ attempt = max_retries - 1
    /\ faults = 0

(* C16: when the enumeration of a sweep ends with no URL, the sentinel goes *)
(* to the interval sleep with no probe made, no status written and no       *)
(* exception raised, and the next enumeration starts only after that sleep. *)
EnumerationEnds ==
    /\ pc \in {"smembers_stations", "smembers_urls"}
    /\ RedisError(backend) = "none"
    /\ SentinelMoves
    /\ pc' # "smembers_urls"
EmptySweep == pc = "interval_sleep" /\ all_urls = {}
C16_EmptySweepSleeps ==
    /\ [](pc \in {"check_url", "set_status", "handler_set"} => all_urls # {})
    /\ [](EmptySweep => (Total(probes, Urls) = 0 /\ e = "none" /\ escaped = "none"))
    /\ [][/\ (EnumerationEnds /\ all_urls' = {}) =>
                (pc' = "interval_sleep" /\ status' = status /\ probes' = NoProbes)
          /\ (EmptySweep /\ SentinelMoves) => (pc' = "smembers_stations" /\ status' = status)]_vars
C16_Witness ==
    /\ pc = "smembers_stations"
    /\ check_count = 1
    /\ stations = {"General"}
    /\ \A s \in StationNames : urls[s] = {}
    /\ \A u \in Urls : status[u] = Absent
    /\ signalAt = "none"
    /\ faults = 0

(* C17: the scheduler moves only along the stated transitions: the interval *)
(* sleep is entered only from a sweep, with every URL of the working set    *)
(* probed; an enumeration (the one place where check_count grows) starts    *)
(* only from a connect_redis that returned, at startup or on a reconnect,   *)
(* from the interval sleep or from the error delay.                         *)
Phase(p, c) ==
    CASE p \in {"ping", "exists", "sadd", "retry_sleep"} ->
            IF c = "main" THEN "CONNECTING" ELSE "RECONNECTING"
      [] p \in {"smembers_stations", "smembers_urls", "check_url", "set_status", "handler_set"} ->
            "SWEEPING"
      [] p = "interval_sleep" -> "SLEEPING"
      [] p = "error_delay" -> "ERROR_DELAY"
      [] OTHER -> "STOPPED"
Transitions ==
    {<<"CONNECTING", "SWEEPING">>, <<"SWEEPING", "SLEEPING">>, <<"SLEEPING", "SWEEPING">>,
     <<"SWEEPING", "RECONNECTING">>, <<"SLEEPING", "RECONNECTING">>,
     <<"RECONNECTING", "SWEEPING">>, <<"SWEEPING", "ERROR_DELAY">>,
     <<"ERROR_DELAY", "SWEEPING">>}
        \cup {<<ph, "STOPPED">> : ph \in {"CONNECTING", "SWEEPING", "SLEEPING",
                                            "RECONNECTING", "ERROR_DELAY"}}
C17_SchedulerTransitions ==
    /\ [](pc = "interval_sleep" => (todo = {} /\ \A u \in all_urls : probes[u] = 1))
    /\ [][/\ Phase(pc', caller') # Phase(pc, caller) =>
                <<Phase(pc, caller), Phase(pc', caller')>> \in Transitions
          /\ (pc' = "interval_sleep" /\ pc # "interval_sleep") =>
                pc \in {"smembers_stations", "smembers_urls", "set_status", "handler_set"}
          /\ (pc' = "smembers_stations" /\ pc # "smembers_stations") =>
                pc \in {"exists", "sadd", "interval_sleep", "error_delay"}
          /\ check_count' # check_count =>
                (pc = "smembers_stations" /\ check_count' = check_count + 1)]_vars
C17_Witness ==
    /\ pc = "interval_sleep"
    /\ check_count = 2
    /\ caller = "check_urls"
    /\ Total(probes, Urls) = 2
    /\ signalAt = "none"

(* C18: an exception that leaves the sweep and is neither a connection      *)
(* error nor the shutdown signal (here the store's TimeoutError, from an    *)
(* enumeration read or from the write of line 128) takes the scheduler to   *)
(* the error delay, and from there to a new enumeration, with no call of    *)
(* connect_redis and without ending the process.                            *)
OtherErrorEscapes ==
    /\ pc \in {"smembers_stations", "smembers_urls", "handler_set"}
    /\ RedisError(backend) = "redis.TimeoutError"
    /\ SentinelMoves
SameConnection == caller' = caller /\ attempt' = attempt /\ exitStatus' = exitStatus
C18_OtherErrorDelaysAndResumes ==
    [][/\ OtherErrorEscapes => (pc' = "error_delay" /\ SameConnection)
       /\ (pc' = "error_delay" /\ pc # "error_delay") => OtherErrorEscapes
       /\ (pc = "error_delay" /\ SentinelMoves) =>
             (pc' = "smembers_stations" /\ SameConnection /\ all_urls' = {} /\ todo' = {})]_vars
C18_Witness ==
    /\ pc = "smembers_urls"
    /\ check_count = 2
    /\ caller = "main"
    /\ backend = "up"
    /\ stations = FilledStore.stations
    /\ \A u \in Urls : status[u] = "PENDING"

(* C19: a status key that is absent for a URL no station references, and    *)
(* that no add_url in flight is registering, stays absent: after delete_url *)
(* has deleted it, only a later add_url brings it back.                     *)
C19_DeletedStatusStaysAbsent ==
    [][\A u \in Urls :
          (/\ status[u] = Absent
           /\ ~Referenced(u)
           /\ \A s \in StationNames : ~BeingAdded(u, s))
             => status'[u] = Absent]_vars

(* C20: with the sentinel not running, once every dashboard request has     *)
(* completed, each existing status key is the status of a URL that some     *)
(* member of stations holds.  Stated for the stores in which only members   *)
(* of stations have a URL set.                                              *)
AllIdle == \A w \in Workers : dash[w] = Idle
OnlyStationsHoldUrls == \A s \in StationNames \ stations : urls[s] = {}
C20_NoOrphanedStatus ==
    (AllIdle /\ OnlyStationsHoldUrls) =>
        \A u \in Urls : status[u] # Absent => Referenced(u)

====
